---- MODULE Spec2Model ----
(***************************************************************************)
(* F1DataManager (models/data_manager.py): the Excel workbook as the       *)
(* store, the raw and processed caches, the validity flag, and the         *)
(* handlers that read and write them.                                      *)
(*                                                                         *)
(* Tables are sequences of rows (row order is the sheet's row order).      *)
(* Dates are day numbers.  Columns the engine never reads (race and driver *)
(* names, credits, default team, player name) are left out of the rows.    *)
(* A calculation-details string is a sequence of segments, one per         *)
(* comma-separated "token: value" part.                                    *)
(***************************************************************************)
EXTENDS Integers, Sequences, FiniteSets, TLC

VARIABLES
    store,            \* the workbook: one table per sheet
    data_cache,       \* self.data_cache
    raw_data_cache,   \* self.raw_data_cache
    is_cache_valid,   \* self.is_cache_valid
    today,            \* the day datetime.now() gave when it was last read
    calls,            \* how many calls have been made on this manager
    last              \* the last call made on the manager, and what it did

vars == <<store, data_cache, raw_data_cache, is_cache_valid, today, calls, last>>

----------------------------------------------------------------------------
(* Bounds of the model *)

MaxPoints == 2      \* cumulative points entered for a driver are 0..MaxPoints
MaxDay == 2         \* the clock runs over days 0..MaxDay
MaxCalls == 2       \* calls a command makes on its manager
MaxSessionCalls == 3  \* calls made on the manager of one session
MaxPicks == 5       \* rows of the PlayerPicks sheet
MaxSubs == 2        \* rows of the DriverAssignments sheet
MaxAccesses == 24   \* workbook accesses of one call that may succeed before a failure

----------------------------------------------------------------------------
(* Generic helpers on sequences *)

Range(seq) == {seq[i] : i \in DOMAIN seq}

\* F of v, with v computed once however often F uses it
Once(v, F(_)) == CHOOSE y \in {F(x) : x \in {v}} : TRUE

RECURSIVE SumSeq(_)
SumSeq(seq) == IF seq = <<>> THEN 0 ELSE Head(seq) + SumSeq(Tail(seq))

\* Series.unique(): the values in order of first appearance
RECURSIVE Unique(_)
Unique(seq) ==
    IF seq = <<>> THEN <<>>
    ELSE LET init == SubSeq(seq, 1, Len(seq) - 1)
             x == seq[Len(seq)]
         IN IF x \in Range(init) THEN Unique(init)
            ELSE Append(Unique(init), x)

Column(table, col) == [i \in DOMAIN table |-> table[i][col]]

\* DataFrame.sort_values(by='Date'): ascending by Date (rows of equal Date keep
\* their order here; the calendar's dates are pairwise distinct)
RECURSIVE SortByDate(_)
SortByDate(rows) ==
    IF rows = <<>> THEN <<>>
    ELSE LET i == CHOOSE k \in DOMAIN rows :
                     /\ \A j \in DOMAIN rows : rows[k].Date <= rows[j].Date
                     /\ \A j \in 1..(k - 1) : rows[j].Date /= rows[k].Date
             rest == [j \in 1..(Len(rows) - 1) |-> IF j < i THEN rows[j] ELSE rows[j + 1]]
         IN <<rows[i]>> \o SortByDate(rest)

\* rows[mask].iloc[0]
First(rows) == rows[1]

----------------------------------------------------------------------------
(* The season data written by initialize_season_data, cut down to three    *)
(* races, three drivers and three teams.  Dates are day numbers: the races *)
(* are on days 1, 2 and 3 and 'ABU' is the last one.                       *)

races_data ==
    << [RaceID |-> "AUS", Date |-> 1, Status |-> "Upcoming"],
       [RaceID |-> "QAT", Date |-> 2, Status |-> "Upcoming"],
       [RaceID |-> "ABU", Date |-> 3, Status |-> "Upcoming"] >>

teams_data == << "RBR", "FER", "HAS" >>

drivers_data == << "VER", "HAM", "BEA" >>

\* ToDate of an open-ended pick (None, read back as NaT): no date at all
NaT == << >>
IsNa(to_date) == to_date = << >>
DateOf(d) == << d >>

\* The value pandas gives for an empty cell
NaN == << [nan |-> TRUE] >>

\* What _process_data's caller sees when a call inside it raises
Raised == [raised |-> "AttributeError"]

\* A dict with no key ({}): what _load_raw_data returns on failure
EmptyDict == [k \in {} |-> << >>]

\* create_excel_if_not_exists: seven sheets with headers and no rows
EmptyWorkbook ==
    [ races |-> << >>, drivers |-> << >>, teams |-> << >>,
      player_picks |-> << >>, driver_assignments |-> << >>,
      race_results |-> << >>, player_results |-> << >> ]

----------------------------------------------------------------------------
(* _load_raw_data *)

\* pd.read_excel on one CalculationDetails cell: the empty string was written
\* as an empty cell and comes back as NaN
ReadDetailsCell(text) == IF text = << >> THEN NaN ELSE text

\* self.sheet_names, in the order _load_raw_data reads the sheets
sheet_names ==
    << "races", "drivers", "teams", "player_picks", "driver_assignments",
       "race_results", "player_results" >>

\* pd.read_excel of one sheet
ReadSheet(st, name) ==
    IF name = "player_results"
    THEN [i \in DOMAIN st.player_results |->
             [st.player_results[i] EXCEPT
                 !.CalculationDetails = ReadDetailsCell(@)]]
    ELSE st[name]

\* the dict `data` of _load_raw_data after its first `reads` reads
ReadSheets(st, reads) ==
    [name \in {sheet_names[i] : i \in 1..reads} |-> ReadSheet(st, name)]

\* the accesses _load_raw_data makes: _check_excel_access and one read per
\* sheet
LoadAccesses == 1 + Len(sheet_names)

\* _load_raw_data, were the sheets read before a failure returned
_load_raw_data_partial(st, acc) ==
    IF acc < 1 THEN EmptyDict
    ELSE IF acc < LoadAccesses THEN ReadSheets(st, acc - 1)
    ELSE ReadSheets(st, Len(sheet_names))

\* _load_raw_data when the first acc of its accesses succeed: {} when the
\* check fails, {} from the except clause when a read fails
_load_raw_data(st, acc) ==
    IF acc < 1 THEN EmptyDict
    ELSE IF acc < LoadAccesses THEN EmptyDict
    ELSE ReadSheets(st, Len(sheet_names))

\* accessible: _check_excel_access and the seven reads succeed
LoadRawData(st, accessible) ==
    _load_raw_data(st, IF accessible THEN LoadAccesses ELSE 0)

----------------------------------------------------------------------------
(* _regenerate_calculation_details *)

\* race_results_df[(RaceID == race_id) & (DriverID == driver_id)]
DriverRaceResult(race_results_df, race_id, driver_id) ==
    SelectSeq(race_results_df,
              LAMBDA row : row.RaceID = race_id /\ row.DriverID = driver_id)

\* the loop over the parts, were a part without a result row kept as it is
RECURSIVE RegeneratePartsKeeping(_, _, _)
RegeneratePartsKeeping(race_id, parts, race_results_df) ==
    IF parts = << >> THEN << >>
    ELSE LET part == Head(parts)
             driver_race_result ==
                 DriverRaceResult(race_results_df, race_id, part.DriverID)
             rest == RegeneratePartsKeeping(race_id, Tail(parts), race_results_df)
         IN IF driver_race_result /= << >>
            THEN << [DriverID |-> part.DriverID,
                     SubstituteID |-> part.SubstituteID,
                     Kind |-> "regenerated",
                     Raw |-> First(driver_race_result).Points,
                     Value |-> First(driver_race_result).Points] >> \o rest
            ELSE << part >> \o rest

\* the loop over the parts of original_details.split(',')
RECURSIVE RegenerateParts(_, _, _)
RegenerateParts(race_id, parts, race_results_df) ==
    IF parts = << >> THEN << >>
    ELSE LET part == Head(parts)
             driver_race_result ==
                 DriverRaceResult(race_results_df, race_id, part.DriverID)
             rest == RegenerateParts(race_id, Tail(parts), race_results_df)
         IN IF driver_race_result /= << >>
            THEN << [DriverID |-> part.DriverID,
                     SubstituteID |-> part.SubstituteID,
                     Kind |-> "regenerated",
                     Raw |-> First(driver_race_result).Points,
                     Value |-> First(driver_race_result).Points] >> \o rest
            ELSE rest

\* The result of a call that raised instead of returning a string
DetailsRaised == << [raised |-> TRUE] >>

\* NaN is truthy, so `if not original_details` lets it through and
\* original_details.split raises
_regenerate_calculation_details(race_id, original_details, race_results_df) ==
    IF original_details = << >> THEN << >>
    ELSE IF original_details = NaN THEN DetailsRaised
    ELSE RegenerateParts(race_id, original_details, race_results_df)

----------------------------------------------------------------------------
(* _process_data *)

\* the completed races in the order of their rows, were they not sorted
CompletedRaceIdsInRowOrder(races) ==
    Column(SelectSeq(races, LAMBDA r : r.Status = "Completed"), "RaceID")

\* the races sorted by date, were their Status not looked at
CompletedRaceIdsOfAnyStatus(races) == Column(SortByDate(races), "RaceID")

\* completed races sorted by date, as a list of race ids
CompletedRaceIds(races) ==
    Column(SortByDate(SelectSeq(races, LAMBDA r : r.Status = "Completed")),
           "RaceID")

\* cumulative_points_map / player_data_map: a later row of the same race
\* overwrites an earlier one
RowsOfRace(rows, race_id) == SelectSeq(rows, LAMBDA row : row.RaceID = race_id)
InMap(rows, race_id) == RowsOfRace(rows, race_id) /= << >>
MapEntry(rows, race_id) ==
    LET recs == RowsOfRace(rows, race_id) IN recs[Len(recs)]

\* the loop for one driver, were prev_points never updated
RECURSIVE DriverPerRaceWithoutCarry(_, _, _, _)
DriverPerRaceWithoutCarry(race_ids, driver_id, driver_results, prev_points) ==
    IF race_ids = << >> THEN << >>
    ELSE LET race_id == Head(race_ids)
             found == InMap(driver_results, race_id)
             current_points ==
                 IF found THEN MapEntry(driver_results, race_id).Points
                 ELSE prev_points
             race_points == IF found THEN current_points - prev_points ELSE 0
         IN << [RaceID |-> race_id, DriverID |-> driver_id,
                Points |-> race_points,
                CumulativePoints |-> current_points] >>
            \o DriverPerRaceWithoutCarry(Tail(race_ids), driver_id,
                                         driver_results, prev_points)

\* the loop for one driver, were a decreasing cumulative taken as no change
RECURSIVE DriverPerRaceClamped(_, _, _, _)
DriverPerRaceClamped(race_ids, driver_id, driver_results, prev_points) ==
    IF race_ids = << >> THEN << >>
    ELSE LET race_id == Head(race_ids)
             found == /\ InMap(driver_results, race_id)
                      /\ MapEntry(driver_results, race_id).Points >= prev_points
             current_points ==
                 IF found THEN MapEntry(driver_results, race_id).Points
                 ELSE prev_points
             race_points == IF found THEN current_points - prev_points ELSE 0
         IN << [RaceID |-> race_id, DriverID |-> driver_id,
                Points |-> race_points,
                CumulativePoints |-> current_points] >>
            \o DriverPerRaceClamped(Tail(race_ids), driver_id, driver_results,
                                    current_points)

\* the loop over completed_race_ids for one driver
RECURSIVE DriverPerRace(_, _, _, _)
DriverPerRace(race_ids, driver_id, driver_results, prev_points) ==
    IF race_ids = << >> THEN << >>
    ELSE LET race_id == Head(race_ids)
             found == InMap(driver_results, race_id)
             current_points ==
                 IF found THEN MapEntry(driver_results, race_id).Points
                 ELSE prev_points
             race_points == IF found THEN current_points - prev_points ELSE 0
         IN << [RaceID |-> race_id, DriverID |-> driver_id,
                Points |-> race_points,
                CumulativePoints |-> current_points] >>
            \o DriverPerRace(Tail(race_ids), driver_id, driver_results,
                             current_points)

RECURSIVE PerRaceDriverResults(_, _, _)
PerRaceDriverResults(driver_ids, race_ids, original_race_results) ==
    IF driver_ids = << >> THEN << >>
    ELSE LET driver_id == Head(driver_ids)
             driver_results ==
                 SelectSeq(original_race_results,
                           LAMBDA row : row.DriverID = driver_id)
         IN DriverPerRace(race_ids, driver_id, driver_results, 0)
            \o PerRaceDriverResults(Tail(driver_ids), race_ids,
                                    original_race_results)

\* the loop over completed_race_ids for one player
RECURSIVE PlayerPerRace(_, _, _, _, _)
PlayerPerRace(race_ids, player_id, player_results, prev_points, race_results_df) ==
    IF race_ids = << >> THEN << >>
    ELSE LET race_id == Head(race_ids)
             found == InMap(player_results, race_id)
             current_points ==
                 IF found THEN MapEntry(player_results, race_id).Points
                 ELSE prev_points
             calc_details ==
                 IF found THEN MapEntry(player_results, race_id).CalculationDetails
                 ELSE << >>
             race_points == IF found THEN current_points - prev_points ELSE 0
         IN << [RaceID |-> race_id, PlayerID |-> player_id,
                Points |-> race_points,
                CumulativePoints |-> current_points,
                CalculationDetails |->
                    _regenerate_calculation_details(race_id, calc_details,
                                                    race_results_df)] >>
            \o PlayerPerRace(Tail(race_ids), player_id, player_results,
                             current_points, race_results_df)

RECURSIVE PerRacePlayerResults(_, _, _, _)
PerRacePlayerResults(player_ids, race_ids, original_player_results, race_results_df) ==
    IF player_ids = << >> THEN << >>
    ELSE LET player_id == Head(player_ids)
             player_results ==
                 SelectSeq(original_player_results,
                           LAMBDA row : row.PlayerID = player_id)
         IN PlayerPerRace(race_ids, player_id, player_results, 0, race_results_df)
            \o PerRacePlayerResults(Tail(player_ids), race_ids,
                                    original_player_results, race_results_df)

\* The dict _process_data builds and returns, or Raised when
\* _regenerate_calculation_details raises inside it or the dict it is given
\* lacks a table it looks up
processed_data(raw_data) ==
    IF raw_data = EmptyDict THEN EmptyDict
    ELSE
    LET completed_race_ids == CompletedRaceIds(raw_data.races)
        replaced(per_race, original) ==
            IF per_race /= << >> THEN per_race ELSE original
        result(race_results, per_race_player_results) ==
            IF \E i \in DOMAIN per_race_player_results :
                   per_race_player_results[i].CalculationDetails = DetailsRaised
            THEN Raised
            ELSE [ races |-> raw_data.races,
                   drivers |-> raw_data.drivers,
                   teams |-> raw_data.teams,
                   player_picks |-> raw_data.player_picks,
                   driver_assignments |-> raw_data.driver_assignments,
                   race_results |-> race_results,
                   player_results |-> replaced(per_race_player_results,
                                               raw_data.player_results),
                   original_race_results |-> raw_data.race_results,
                   original_player_results |-> raw_data.player_results ]
    IN IF completed_race_ids = << >> THEN raw_data
       ELSE IF ~(Range(sheet_names) \subseteq DOMAIN raw_data) THEN Raised
       ELSE Once(replaced(PerRaceDriverResults(Unique(raw_data.drivers),
                                               completed_race_ids,
                                               raw_data.race_results),
                          raw_data.race_results),
                 LAMBDA race_results :
                     Once(PerRacePlayerResults(
                              Unique(Column(raw_data.player_results, "PlayerID")),
                              completed_race_ids, raw_data.player_results,
                              race_results),
                          LAMBDA per_race_player_results :
                              result(race_results, per_race_player_results)))

\* _process_data, were the tables replaced in the dict it is given rather
\* than in a copy
_process_data_in_place(raw_data) ==
    Once(processed_data(raw_data),
         LAMBDA ret :
             [ret |-> ret,
              raw_data |->
                  IF ret = Raised \/ ret = EmptyDict THEN raw_data
                  ELSE [raw_data EXCEPT !.race_results = ret.race_results,
                                        !.player_results = ret.player_results]])

\* One call of _process_data: what it returns (ret) and what the dict it was
\* given holds afterwards (raw_data).  The tables are copied before anything is
\* replaced, so the argument is left as it was.
_process_data(raw_data) ==
    Once(raw_data, LAMBDA raw : [ret |-> processed_data(raw), raw_data |-> raw])

----------------------------------------------------------------------------
(* The manager: m = [store, data_cache, raw_data_cache, is_cache_valid].    *)
(* Every handler takes acc, the number of accesses to the workbook (a      *)
(* _check_excel_access, a read or a write, in the order the handler makes  *)
(* them) that succeed before the workbook becomes inaccessible; the later  *)
(* accesses of the call fail.                                              *)

\* the branch of load_data that reads the workbook
reload(m, acc) ==
    LET reloaded(raw, call) ==
            IF raw = EmptyDict
            THEN [m |-> [m EXCEPT !.raw_data_cache = EmptyDict,
                                  !.data_cache = EmptyDict,
                                  !.is_cache_valid = FALSE],
                  ret |-> EmptyDict, used |-> LoadAccesses]
            ELSE IF call.ret = Raised
            THEN [m |-> [m EXCEPT !.raw_data_cache = call.raw_data],
                  ret |-> Raised, used |-> LoadAccesses]
            ELSE [m |-> [m EXCEPT !.raw_data_cache = call.raw_data,
                                  !.data_cache = call.ret,
                                  !.is_cache_valid = TRUE],
                  ret |-> call.ret, used |-> LoadAccesses]
    IN Once(_load_raw_data(m.store, acc),
            LAMBDA raw : Once(_process_data(raw),
                              LAMBDA call : reloaded(raw, call)))

\* load_data, were refresh not looked at
load_data_cached(m, refresh, acc) ==
    IF ~m.is_cache_valid \/ m.data_cache = EmptyDict
    THEN reload(m, acc)
    ELSE [m |-> m, ret |-> m.data_cache, used |-> 0]

\* load_data: the accesses of _load_raw_data unless the cache is used.
\* ret is the returned dict, or Raised when _process_data raised; used is the
\* number of accesses the call had a use for.
load_data(m, refresh, acc) ==
    IF refresh \/ ~m.is_cache_valid \/ m.data_cache = EmptyDict
    THEN reload(m, acc)
    ELSE [m |-> m, ret |-> m.data_cache, used |-> 0]

\* initialize_season_data: check, then one writer replacing three sheets
initialize_season_data(m, acc) ==
    IF acc < 2 THEN [m |-> m, ret |-> FALSE]
    ELSE [m |-> [m EXCEPT !.store.races = races_data,
                          !.store.teams = teams_data,
                          !.store.drivers = drivers_data,
                          !.is_cache_valid = FALSE],
          ret |-> TRUE]

\* add_player, were the workbook not checked and written to blindly
add_player_unchecked(m, player_id, driver_ids, from_date, acc) ==
    [m |-> [m EXCEPT !.store.player_picks =
                         @ \o [i \in DOMAIN driver_ids |->
                                  [PlayerID |-> player_id,
                                   DriverID |-> driver_ids[i],
                                   FromDate |-> from_date, ToDate |-> NaT]],
                     !.is_cache_valid = FALSE],
     ret |-> TRUE]

\* add_player: check, read PlayerPicks, write PlayerPicks
add_player(m, player_id, driver_ids, from_date, acc) ==
    IF acc < 3 THEN [m |-> m, ret |-> FALSE]
    ELSE LET new_picks ==
                 [i \in DOMAIN driver_ids |->
                     [PlayerID |-> player_id, DriverID |-> driver_ids[i],
                      FromDate |-> from_date, ToDate |-> NaT]]
         IN [m |-> [m EXCEPT !.store.player_picks = @ \o new_picks,
                             !.is_cache_valid = FALSE],
             ret |-> TRUE]

\* update_player_pick, were the mask not restricted to the player
update_player_pick_of_any_player(m, player_id, old_driver_id, new_driver_id, day, acc) ==
    LET picks == m.store.player_picks
        mask == [i \in DOMAIN picks |->
                    /\ picks[i].DriverID = old_driver_id
                    /\ IsNa(picks[i].ToDate)]
        closed == [i \in DOMAIN picks |->
                      IF mask[i] THEN [picks[i] EXCEPT !.ToDate = DateOf(day)]
                      ELSE picks[i]]
        new_pick == [PlayerID |-> player_id, DriverID |-> new_driver_id,
                     FromDate |-> day, ToDate |-> NaT]
    IN IF acc < 2 THEN [m |-> m, ret |-> FALSE]
       ELSE IF \A i \in DOMAIN picks : ~mask[i] THEN [m |-> m, ret |-> FALSE]
       ELSE IF acc < 3 THEN [m |-> m, ret |-> FALSE]
       ELSE [m |-> [m EXCEPT !.store.player_picks = Append(closed, new_pick),
                             !.is_cache_valid = FALSE],
             ret |-> TRUE]

\* update_player_pick: check, read PlayerPicks, write PlayerPicks
update_player_pick(m, player_id, old_driver_id, new_driver_id, day, acc) ==
    LET picks == m.store.player_picks
        mask == [i \in DOMAIN picks |->
                    /\ picks[i].PlayerID = player_id
                    /\ picks[i].DriverID = old_driver_id
                    /\ IsNa(picks[i].ToDate)]
        closed == [i \in DOMAIN picks |->
                      IF mask[i] THEN [picks[i] EXCEPT !.ToDate = DateOf(day)]
                      ELSE picks[i]]
        new_pick == [PlayerID |-> player_id, DriverID |-> new_driver_id,
                     FromDate |-> day, ToDate |-> NaT]
    IN IF acc < 2 THEN [m |-> m, ret |-> FALSE]
       ELSE IF \A i \in DOMAIN picks : ~mask[i] THEN [m |-> m, ret |-> FALSE]
       ELSE IF acc < 3 THEN [m |-> m, ret |-> FALSE]
       ELSE [m |-> [m EXCEPT !.store.player_picks = Append(closed, new_pick),
                             !.is_cache_valid = FALSE],
             ret |-> TRUE]

\* save_race_results, were the rows the race has already kept
save_race_results_appending(m, race_id, results_data, acc) ==
    LET df_races == [i \in DOMAIN m.store.races |->
                        IF m.store.races[i].RaceID = race_id
                        THEN [m.store.races[i] EXCEPT !.Status = "Completed"]
                        ELSE m.store.races[i]]
        written == [m EXCEPT !.store.race_results = @ \o results_data]
    IN IF acc < 3 THEN [m |-> m, ret |-> FALSE]
       ELSE IF acc < 5 THEN [m |-> written, ret |-> FALSE]
       ELSE [m |-> [written EXCEPT !.store.races = df_races,
                                   !.is_cache_valid = FALSE],
             ret |-> TRUE]

\* save_race_results: check, read RaceResults (a failed read is swallowed),
\* write RaceResults, read Races, write Races
save_race_results(m, race_id, results_data, acc) ==
    LET existing == SelectSeq(m.store.race_results,
                              LAMBDA row : row.RaceID /= race_id)
        df_results == IF acc >= 2 THEN existing \o results_data ELSE results_data
        df_races == [i \in DOMAIN m.store.races |->
                        IF m.store.races[i].RaceID = race_id
                        THEN [m.store.races[i] EXCEPT !.Status = "Completed"]
                        ELSE m.store.races[i]]
        written == [m EXCEPT !.store.race_results = df_results]
    IN IF acc < 3 THEN [m |-> m, ret |-> FALSE]
       ELSE IF acc < 5 THEN [m |-> written, ret |-> FALSE]
       ELSE [m |-> [written EXCEPT !.store.races = df_races,
                                   !.is_cache_valid = FALSE],
             ret |-> TRUE]

\* save_player_results, were the rows the race has already kept
save_player_results_appending(m, race_id, player_results, acc) ==
    IF acc < 3 THEN [m |-> m, ret |-> FALSE]
    ELSE [m |-> [m EXCEPT !.store.player_results = @ \o player_results,
                          !.is_cache_valid = FALSE],
          ret |-> TRUE]

\* save_player_results: check, read PlayerResults (a failed read is
\* swallowed), write PlayerResults
save_player_results(m, race_id, player_results, acc) ==
    LET existing == SelectSeq(m.store.player_results,
                              LAMBDA row : row.RaceID /= race_id)
        df_player_results ==
            IF acc >= 2 THEN existing \o player_results ELSE player_results
    IN IF acc < 3 THEN [m |-> m, ret |-> FALSE]
       ELSE [m |-> [m EXCEPT !.store.player_results = df_player_results,
                             !.is_cache_valid = FALSE],
             ret |-> TRUE]

----------------------------------------------------------------------------
(* calculate_player_points_for_race *)

\* the multiplier, were no race doubled
multiplier_single(race_id) == 1

\* Abu Dhabi (the last race) counts double
is_abu_dhabi(race_id) == race_id = "ABU"
multiplier(race_id) == IF is_abu_dhabi(race_id) THEN 2 ELSE 1

\* the drivers picked, were a pick that ends on the race date left out
player_drivers_exclusive(player_picks, player_id, race_date) ==
    Column(SelectSeq(player_picks,
                     LAMBDA pick :
                         /\ pick.PlayerID = player_id
                         /\ pick.FromDate <= race_date
                         /\ (IsNa(pick.ToDate) \/ pick.ToDate[1] > race_date)),
           "DriverID")

\* the drivers picked by this player for the race date
player_drivers(player_picks, player_id, race_date) ==
    Column(SelectSeq(player_picks,
                     LAMBDA pick :
                         /\ pick.PlayerID = player_id
                         /\ pick.FromDate <= race_date
                         /\ (IsNa(pick.ToDate) \/ pick.ToDate[1] >= race_date)),
           "DriverID")

\* race_assignments[SubstitutedForDriverID == driver_id]
substitution(race_assignments, driver_id) ==
    SelectSeq(race_assignments,
              LAMBDA row : row.SubstitutedForDriverID = driver_id)

\* the driver whose result row is read, were the substitution ignored
scoring_driver_own(race_assignments, driver_id) == driver_id

\* the driver whose result row is read, were the last matching assignment
\* taken
scoring_driver_last(race_assignments, driver_id) ==
    IF substitution(race_assignments, driver_id) /= << >>
    THEN substitution(race_assignments, driver_id)[
             Len(substitution(race_assignments, driver_id))].DriverID
    ELSE driver_id

\* the driver whose result row is read for a pick: the substitute of the
\* first matching assignment, else the picked driver
scoring_driver(race_assignments, driver_id) ==
    IF substitution(race_assignments, driver_id) /= << >>
    THEN First(substitution(race_assignments, driver_id)).DriverID
    ELSE driver_id

\* One pass of the loop over player_drivers: the increments of total_points
\* (points) and the segments appended to calculation_details (details).
\* Nothing is added or appended when the scoring driver has no result row.
RECURSIVE score_drivers(_, _, _, _)
score_drivers(drivers, race_id, race_results_filtered, race_assignments) ==
    IF drivers = << >> THEN [points |-> << >>, details |-> << >>]
    ELSE LET driver_id == Head(drivers)
             subbed == substitution(race_assignments, driver_id) /= << >>
             scorer == scoring_driver(race_assignments, driver_id)
             result == SelectSeq(race_results_filtered,
                                 LAMBDA row : row.DriverID = scorer)
             driver_points == First(result).Points * multiplier(race_id)
             segment == [DriverID |-> driver_id,
                         SubstituteID |-> IF subbed THEN scorer ELSE "",
                         Kind |-> IF is_abu_dhabi(race_id) THEN "x2" ELSE "value",
                         Raw |-> First(result).Points,
                         Value |-> driver_points]
         IN Once(score_drivers(Tail(drivers), race_id, race_results_filtered,
                               race_assignments),
                 LAMBDA rest :
                     IF result /= << >>
                     THEN [points |-> << driver_points >> \o rest.points,
                           details |-> << segment >> \o rest.details]
                     ELSE rest)

\* all unique players of PlayerPicks
scored_players(player_picks) == Unique(Column(player_picks, "PlayerID"))

\* player_results_data, were players without an active pick skipped
player_results_data_active(data, race_id, race_date) ==
    LET race_results_filtered == RowsOfRace(data.race_results, race_id)
        race_assignments == RowsOfRace(data.driver_assignments, race_id)
        players ==
            SelectSeq(scored_players(data.player_picks),
                      LAMBDA player_id :
                          player_drivers(data.player_picks, player_id,
                                         race_date) /= << >>)
        row(player_id, scored) ==
            [RaceID |-> race_id, PlayerID |-> player_id,
             Points |-> SumSeq(scored.points),
             CalculationDetails |-> scored.details]
    IN [i \in DOMAIN players |->
           Once(score_drivers(
                    player_drivers(data.player_picks, players[i], race_date),
                    race_id, race_results_filtered, race_assignments),
                LAMBDA scored : row(players[i], scored))]

\* player_results_data: one row per player
player_results_data(data, race_id, race_date) ==
    LET race_results_filtered == RowsOfRace(data.race_results, race_id)
        race_assignments == RowsOfRace(data.driver_assignments, race_id)
        players == scored_players(data.player_picks)
        row(player_id, scored) ==
            [RaceID |-> race_id, PlayerID |-> player_id,
             Points |-> SumSeq(scored.points),
             CalculationDetails |-> scored.details]
    IN [i \in DOMAIN players |->
           Once(score_drivers(
                    player_drivers(data.player_picks, players[i], race_date),
                    race_id, race_results_filtered, race_assignments),
                LAMBDA scored : row(players[i], scored))]

\* the race lookup, were the rows not filtered by race id
race_info_unfiltered(races, race_id) == races

\* races[races['RaceID'] == race_id]
race_info(races, race_id) == RowsOfRace(races, race_id)

\* check, load_data(refresh=True), then save_player_results, whose result is
\* not looked at.  data is the dict load_data returned, rows is
\* player_results_data when it was computed, saved is what
\* save_player_results returned.
calculate_player_points_for_race(m, race_id, acc) ==
    LET failed(after) == [m |-> after, ret |-> FALSE, data |-> EmptyDict,
                          rows |-> << >>, saved |-> FALSE]
        save(loaded, rows) ==
            Once(save_player_results(loaded.m, race_id, rows,
                                     acc - 1 - loaded.used),
                 LAMBDA saved : [m |-> saved.m, ret |-> TRUE,
                                 data |-> loaded.ret, rows |-> rows,
                                 saved |-> saved.ret])
        score(loaded) ==
            LET data == loaded.ret
                race_date == First(race_info(data.races, race_id)).Date
            IN IF data = Raised \/ data = EmptyDict THEN failed(loaded.m)
               ELSE IF ~(Range(sheet_names) \subseteq DOMAIN data)
               THEN failed(loaded.m)
               ELSE IF race_info(data.races, race_id) = << >>
               THEN failed(loaded.m)
               ELSE Once(player_results_data(data, race_id, race_date),
                         LAMBDA rows : save(loaded, rows))
    IN IF acc < 1 THEN failed(m)
       ELSE Once(load_data(m, TRUE, acc - 1), score)

----------------------------------------------------------------------------
(* record_driver_substitution: check, read DriverAssignments, write         *)
(* DriverAssignments, load_data(), and for a completed race                 *)
(* calculate_player_points_for_race, whose result is not looked at          *)

record_driver_substitution(m, race_id, substitute_driver_id, team_id, replaced_driver_id, acc) ==
    LET df_assignments == m.store.driver_assignments
        new_assignment == [RaceID |-> race_id, DriverID |-> substitute_driver_id,
                           TeamID |-> team_id,
                           SubstitutedForDriverID |-> replaced_driver_id]
        existing == SelectSeq(df_assignments, LAMBDA row : row = new_assignment)
        written == [m EXCEPT !.store.driver_assignments =
                                 Append(df_assignments, new_assignment),
                             !.is_cache_valid = FALSE]
        completed(races) ==
            \E i \in DOMAIN races : /\ races[i].RaceID = race_id
                                    /\ races[i].Status = "Completed"
        recalculate(loaded) ==
            IF loaded.ret = Raised THEN [m |-> loaded.m, ret |-> FALSE]
            ELSE IF loaded.ret /= EmptyDict /\ completed(loaded.ret.races)
            THEN [m |-> calculate_player_points_for_race(
                            loaded.m, race_id, acc - 3 - loaded.used).m,
                  ret |-> TRUE]
            ELSE [m |-> loaded.m, ret |-> TRUE]
    IN IF acc < 2 THEN [m |-> m, ret |-> FALSE]
       ELSE IF existing /= << >> THEN [m |-> m, ret |-> TRUE]
       ELSE IF acc < 3 THEN [m |-> m, ret |-> FALSE]
       ELSE Once(load_data(written, FALSE, acc - 3), recalculate)

----------------------------------------------------------------------------
(* The workbook a manager is constructed on.  Every command and every run  *)
(* of the application constructs its own F1DataManager on the workbook     *)
(* that earlier runs left: a new workbook, one with the season data, one   *)
(* with a player added, one with races entered and scored.                 *)

Players == {"P1", "P2"}
RaceIdInputs == {"AUS", "QAT", "ABU", "XXX"}     \* 'XXX' is in no calendar
DriverListInputs == { << "VER", "HAM" >> }

\* results_data of save_race_results: cumulative points of VER, with or
\* without a row for BEA
ResultsInputs(race_id) ==
    { << [RaceID |-> race_id, DriverID |-> "VER", Points |-> p] >> :
          p \in 1..MaxPoints }
    \cup
    { << [RaceID |-> race_id, DriverID |-> "VER", Points |-> 1],
         [RaceID |-> race_id, DriverID |-> "BEA", Points |-> MaxPoints] >> }

\* results_data with a row for 'RUS', who is not in Drivers
UnlistedResultsInputs(race_id) ==
    { << [RaceID |-> race_id, DriverID |-> "VER", Points |-> 1],
         [RaceID |-> race_id, DriverID |-> "RUS", Points |-> MaxPoints] >> }

\* player_results of a direct save_player_results call: one row whose
\* details name VER, and one whose details name 'RUS', who is not in
\* Drivers, then VER with a substitute, then HAM
PlayerResultsInputs(race_id) ==
    { << [RaceID |-> race_id, PlayerID |-> "P1", Points |-> p,
          CalculationDetails |->
              << [DriverID |-> "VER", SubstituteID |-> "", Kind |-> "value",
                  Raw |-> p, Value |-> p] >>] >> : p \in {MaxPoints} }
    \cup
    { << [RaceID |-> race_id, PlayerID |-> "P1", Points |-> p,
          CalculationDetails |->
              << [DriverID |-> "RUS", SubstituteID |-> "", Kind |-> "value",
                  Raw |-> p, Value |-> p],
                 [DriverID |-> "VER", SubstituteID |-> "BEA", Kind |-> "value",
                  Raw |-> p, Value |-> p],
                 [DriverID |-> "HAM", SubstituteID |-> "", Kind |-> "value",
                  Raw |-> p, Value |-> p] >>] >> : p \in {MaxPoints} }

Manager(st, dc, rc, valid) ==
    [store |-> st, data_cache |-> dc, raw_data_cache |-> rc,
     is_cache_valid |-> valid]

\* F1DataManager.__init__: empty caches, the flag false
NewManager(st) == Manager(st, EmptyDict, EmptyDict, FALSE)

\* init_excel: create_excel_if_not_exists, then initialize_season_data
SeasonWorkbook ==
    initialize_season_data(NewManager(EmptyWorkbook), MaxAccesses).m.store

\* PlayerController.add_player on day 0: one player with two drivers
PlayersWorkbook ==
    add_player(NewManager(SeasonWorkbook), "P1", << "VER", "HAM" >>, 0,
               MaxAccesses).m.store

\* RaceController.update_race_results: save_race_results, then
\* calculate_player_points_for_race
UpdateRaceResults(st, race_id, results_data) ==
    Once(save_race_results(NewManager(st), race_id, results_data, MaxAccesses),
         LAMBDA saved :
             calculate_player_points_for_race(saved.m, race_id,
                                              MaxAccesses).m.store)

\* RaceController.add_substitution on a workbook with the first race
\* entered for VER and BEA: BEA recorded as the substitute of VER
SubstitutedWorkbook ==
    record_driver_substitution(
        NewManager(UpdateRaceResults(
                       PlayersWorkbook, "AUS",
                       << [RaceID |-> "AUS", DriverID |-> "VER", Points |-> 1],
                          [RaceID |-> "AUS", DriverID |-> "BEA",
                           Points |-> MaxPoints] >>)),
        "AUS", "BEA", "RBR", "VER", MaxAccesses).m.store

Workbooks ==
    { [store |-> EmptyWorkbook, day |-> 0],
      [store |-> SeasonWorkbook, day |-> 0],
      [store |-> PlayersWorkbook, day |-> 0],
      [store |-> SubstitutedWorkbook, day |-> 1] }
    \cup
    { [store |-> UpdateRaceResults(PlayersWorkbook, "AUS", results_data),
       day |-> 1] : results_data \in ResultsInputs("AUS") }

----------------------------------------------------------------------------
(* The calls made on one manager.  A call is given the sets its arguments  *)
(* are drawn from and the number of calls the manager takes.               *)

\* acc of a call: the workbook is inaccessible from the start, becomes
\* inaccessible after the third access or after the third access that
\* follows a load, or stays accessible
AfterLoad == 3 + LoadAccesses
Accesses == {0, 3, AfterLoad, MaxAccesses}

\* datetime.now() never goes back
Clock == today..MaxDay

\* last: the call that was made (op, race), what it returned (ret), whether
\* the workbook changed (wrote), and for load_data whether it called
\* _load_raw_data (reloaded), how many sheets that call read (reads), the
\* dict load_data returned (view), the refresh it was given and the
\* data_cache and the flag it found (cache, valid), for calculate_player_points_for_race the
\* dict it loaded (view), the rows it computed (rows) and what save_player_results
\* returned (saved); for save_race_results and save_player_results rows are
\* the rows the call was given; drivers and teams are the driver and team
\* ids the call was given, before is the workbook the call found; denied
\* tells that the workbook was inaccessible from the call's first access,
\* kept that the call left both caches and the flag as they were, args are
\* the arguments of the call beside the race id and the rows
NoCall == [op |-> "none", race |-> "", ret |-> FALSE, wrote |-> FALSE,
           reloaded |-> FALSE, view |-> EmptyDict, rows |-> << >>,
           saved |-> FALSE, reads |-> 0, refresh |-> FALSE,
           cache |-> EmptyDict, valid |-> FALSE, drivers |-> {}, teams |-> {},
           before |-> EmptyWorkbook, denied |-> FALSE, kept |-> TRUE,
           args |-> << >>]

Call(op, race_id, ret, wrote) ==
    [NoCall EXCEPT !.op = op, !.race = race_id, !.ret = ret, !.wrote = wrote,
                   !.before = store]

Self == Manager(store, data_cache, raw_data_cache, is_cache_valid)

\* what a call with these arguments, given acc and ending with the manager
\* m, adds to its record
Given(call, args, acc, m) ==
    [call EXCEPT !.args = args,
                 !.denied = (acc < 1),
                 !.kept = /\ m.data_cache = data_cache
                          /\ m.raw_data_cache = raw_data_cache
                          /\ m.is_cache_valid = is_cache_valid]

Becomes(m) ==
    /\ store' = m.store
    /\ data_cache' = m.data_cache
    /\ raw_data_cache' = m.raw_data_cache
    /\ is_cache_valid' = m.is_cache_valid
    /\ calls' = calls + 1

LoadDataCall(refreshes, accs, budget) ==
    \E refresh \in refreshes, acc \in accs :
        /\ calls < budget
        /\ \E r \in {load_data(Self, refresh, acc)} :
              /\ Becomes(r.m)
              /\ last' = [Call("load_data", "",
                               r.ret /= EmptyDict /\ r.ret /= Raised, FALSE)
                          EXCEPT !.reloaded = (r.used > 0),
                                 !.reads = IF r.used = 0 \/ acc < 1 THEN 0
                                           ELSE IF acc < LoadAccesses
                                           THEN acc - 1
                                           ELSE Len(sheet_names),
                                 !.view = r.ret,
                                 !.refresh = refresh,
                                 !.cache = data_cache,
                                 !.valid = is_cache_valid]
        /\ UNCHANGED today

InitializeSeasonDataCall(accs, budget) ==
    \E acc \in accs :
        /\ calls < budget
        /\ \E r \in {initialize_season_data(Self, acc)} :
              /\ Becomes(r.m)
              /\ last' = Call("initialize_season_data", "", r.ret,
                              r.m.store /= store)
        /\ UNCHANGED today

AddPlayerCall(players, accs, budget) ==
    \E player_id \in players, driver_ids \in DriverListInputs,
       day \in Clock, acc \in accs :
        /\ calls < budget
        /\ Len(store.player_picks) + Len(driver_ids) <= MaxPicks
        /\ \E r \in {add_player(Self, player_id, driver_ids, day, acc)} :
              /\ Becomes(r.m)
              /\ last' = Given([Call("add_player", "", r.ret,
                                      r.m.store /= store)
                                 EXCEPT !.drivers = Range(driver_ids)],
                                << player_id, driver_ids, day >>, acc, r.m)
        /\ today' = day

UpdatePlayerPickCall(players, accs, budget) ==
    \E player_id \in players, old_driver_id \in {"VER", "BEA"},
       new_driver_id \in {"BEA"}, day \in Clock, acc \in accs :
        /\ calls < budget
        /\ Len(store.player_picks) < MaxPicks
        /\ \E r \in {update_player_pick(Self, player_id, old_driver_id,
                                       new_driver_id, day, acc)} :
              /\ Becomes(r.m)
              /\ last' = Given(Call("update_player_pick", "", r.ret,
                                     r.m.store /= store),
                                << player_id, old_driver_id, new_driver_id, day >>,
                                acc, r.m)
        /\ today' = day

RecordDriverSubstitutionCall(race_ids, substitutes, accs, budget) ==
    \E race_id \in race_ids, substitute_driver_id \in substitutes,
       acc \in accs :
        /\ calls < budget
        /\ Len(store.driver_assignments) < MaxSubs
        /\ \E r \in {record_driver_substitution(Self, race_id, substitute_driver_id,
                                               "RBR", "VER", acc)} :
              /\ Becomes(r.m)
              /\ last' = Given([Call("record_driver_substitution", race_id,
                                      r.ret, r.m.store /= store)
                                 EXCEPT !.drivers = {substitute_driver_id, "VER"},
                                        !.teams = {"RBR"}],
                                << substitute_driver_id, "RBR", "VER" >>, acc, r.m)
        /\ UNCHANGED today

SaveRaceResultsCall(race_ids, accs, budget) ==
    \E race_id \in race_ids, acc \in accs :
        \E results_data \in ResultsInputs(race_id)
                                \cup UnlistedResultsInputs(race_id) :
            /\ calls < budget
            /\ \E r \in {save_race_results(Self, race_id, results_data, acc)} :
                  /\ Becomes(r.m)
                  /\ last' = Given([Call("save_race_results", race_id, r.ret,
                                          r.m.store /= store)
                                     EXCEPT !.rows = results_data],
                                    << >>, acc, r.m)
            /\ UNCHANGED today

SavePlayerResultsCall(race_ids, accs, budget) ==
    \E race_id \in race_ids, acc \in accs :
        \E player_results \in PlayerResultsInputs(race_id) :
            /\ calls < budget
            /\ \E r \in {save_player_results(Self, race_id, player_results, acc)} :
                  /\ Becomes(r.m)
                  /\ last' = Given([Call("save_player_results", race_id,
                                          r.ret, r.m.store /= store)
                                     EXCEPT !.rows = player_results],
                                    << >>, acc, r.m)
            /\ UNCHANGED today

CalculatePlayerPointsCall(race_ids, accs, budget) ==
    \E race_id \in race_ids, acc \in accs :
        /\ calls < budget
        /\ \E r \in {calculate_player_points_for_race(Self, race_id, acc)} :
              /\ Becomes(r.m)
              /\ last' = Given([Call("calculate_player_points_for_race",
                                      race_id, r.ret, r.m.store /= store)
                                 EXCEPT !.view = r.data, !.rows = r.rows,
                                        !.saved = r.saved],
                                << >>, acc, r.m)
        /\ UNCHANGED today

----------------------------------------------------------------------------
(* Commands: every command makes its calls on a manager of its own, built  *)
(* on the workbook the earlier commands left.                              *)

Init ==
    \E w \in Workbooks :
        /\ store = w.store
        /\ today = w.day
        /\ data_cache = EmptyDict
        /\ raw_data_cache = EmptyDict
        /\ is_cache_valid = FALSE
        /\ calls = 0
        /\ last = NoCall

LoadData == LoadDataCall(BOOLEAN, {0, 3, MaxAccesses}, MaxCalls)
InitializeSeasonData == InitializeSeasonDataCall(Accesses, MaxCalls)
AddPlayer == AddPlayerCall(Players, Accesses, MaxCalls)
UpdatePlayerPick == UpdatePlayerPickCall(Players, Accesses, MaxCalls)
RecordDriverSubstitution ==
    RecordDriverSubstitutionCall(RaceIdInputs, {"BEA", "HAM"},
                                 Accesses, MaxCalls)
SaveRaceResults == SaveRaceResultsCall(RaceIdInputs, Accesses, MaxCalls)
SavePlayerResults == SavePlayerResultsCall(RaceIdInputs, Accesses, MaxCalls)
CalculatePlayerPoints ==
    CalculatePlayerPointsCall(RaceIdInputs, Accesses, MaxCalls)

Next ==
    \/ LoadData
    \/ InitializeSeasonData
    \/ AddPlayer
    \/ UpdatePlayerPick
    \/ RecordDriverSubstitution
    \/ SaveRaceResults
    \/ SavePlayerResults
    \/ CalculatePlayerPoints

Spec == Init /\ [][Next]_vars

----------------------------------------------------------------------------
(* One session of the application: MainController builds one manager and   *)
(* every controller calls it.  The session starts on a workbook in which   *)
(* the first race is entered and scored; it works on that race and         *)
(* records substitutions for the next one.                                 *)

SessionRaces == {"AUS"}
SessionNextRaces == {"QAT"}

SessionInit ==
    /\ store = UpdateRaceResults(PlayersWorkbook, "AUS",
                                 << [RaceID |-> "AUS", DriverID |-> "VER",
                                     Points |-> 1] >>)
    /\ today = 1
    /\ data_cache = EmptyDict
    /\ raw_data_cache = EmptyDict
    /\ is_cache_valid = FALSE
    /\ calls = 0
    /\ last = NoCall

SessionLoadData == LoadDataCall(BOOLEAN, {MaxAccesses}, MaxSessionCalls)
SessionInitializeSeasonData ==
    InitializeSeasonDataCall({MaxAccesses}, MaxSessionCalls)
SessionAddPlayer == AddPlayerCall({"P2"}, {MaxAccesses}, MaxSessionCalls)
SessionUpdatePlayerPick ==
    UpdatePlayerPickCall({"P1"}, {MaxAccesses}, MaxSessionCalls)
SessionRecordDriverSubstitution ==
    RecordDriverSubstitutionCall(SessionNextRaces, {"BEA"}, {MaxAccesses},
                                 MaxSessionCalls)
SessionSaveRaceResults ==
    SaveRaceResultsCall(SessionRaces, {3, MaxAccesses}, MaxSessionCalls)
SessionSavePlayerResults ==
    SavePlayerResultsCall(SessionRaces, {MaxAccesses}, MaxSessionCalls)
SessionCalculatePlayerPoints ==
    CalculatePlayerPointsCall(SessionRaces, {AfterLoad, MaxAccesses},
                              MaxSessionCalls)

SessionNext ==
    \/ SessionLoadData
    \/ SessionInitializeSeasonData
    \/ SessionAddPlayer
    \/ SessionUpdatePlayerPick
    \/ SessionRecordDriverSubstitution
    \/ SessionSaveRaceResults
    \/ SessionSavePlayerResults
    \/ SessionCalculatePlayerPoints

SessionSpec == SessionInit /\ [][SessionNext]_vars

----------------------------------------------------------------------------
(* Properties.  What a property needs beside the model is defined here, in *)
(* the words of the specification rather than of the code.                 *)

\* the dict the next load_data() without refresh returns, the workbook
\* being accessible
NextView == load_data(Self, FALSE, MaxAccesses).ret

\* the normalization of a workbook's content
Normalized(st) == _process_data(LoadRawData(st, TRUE)).ret

\* the last call was a calculate_player_points_for_race that returned True
Scored == last.op = "calculate_player_points_for_race" /\ last.ret

Mutators ==
    { "add_player", "update_player_pick", "record_driver_substitution",
      "save_race_results", "save_player_results",
      "calculate_player_points_for_race", "initialize_season_data" }

RaceIds(races) == {races[i].RaceID : i \in DOMAIN races}

IsCompleted(races, race_id) ==
    \E i \in DOMAIN races : /\ races[i].RaceID = race_id
                            /\ races[i].Status = "Completed"

DateOfRace(races, race_id) ==
    races[CHOOSE i \in DOMAIN races : races[i].RaceID = race_id].Date

RowsOf(table, col, id) == SelectSeq(table, LAMBDA row : row[col] = id)

\* the sum of the Points of a table's rows for one driver or player
SumOfPoints(table, col, id) == SumSeq(Column(RowsOf(table, col, id), "Points"))

\* the Points of the stored row of the latest completed race among rows
\* (the last row when a race has several), 0 when there is none
LastRecorded(races, rows) ==
    LET done == {i \in DOMAIN rows : IsCompleted(races, rows[i].RaceID)}
    IN IF done = {} THEN 0
       ELSE rows[CHOOSE i \in done : \A j \in done :
                     \/ DateOfRace(races, rows[j].RaceID)
                            < DateOfRace(races, rows[i].RaceID)
                     \/ (rows[j].RaceID = rows[i].RaceID /\ j <= i)].Points

\* a player's cumulative total before a race, as the normalized view gives
\* it: CumulativePoints at the latest completed race before it, 0 if none
PriorCumulative(view, player_id, race_id) ==
    LET earlier == {r \in Range(view.races) :
                        /\ r.Status = "Completed"
                        /\ r.Date < DateOfRace(view.races, race_id)}
        rows == {row \in Range(view.player_results) :
                     /\ row.PlayerID = player_id
                     /\ \E r \in earlier : r.RaceID = row.RaceID}
    IN IF rows = {} THEN 0
       ELSE (CHOOSE row \in rows : \A other \in rows :
                 DateOfRace(view.races, other.RaceID)
                     <= DateOfRace(view.races, row.RaceID)).CumulativePoints

\* the rows of PlayerPicks that are active for a player on a date
ActivePicks(picks, player_id, race_date) ==
    {k \in DOMAIN picks :
         /\ picks[k].PlayerID = player_id
         /\ picks[k].FromDate <= race_date
         /\ (picks[k].ToDate = NaT \/ picks[k].ToDate[1] >= race_date)}

\* the drivers recorded as substitutes of a driver for a race
SubstitutesOf(assignments, race_id, driver_id) ==
    {assignments[i].DriverID :
         i \in {j \in DOMAIN assignments :
                    /\ assignments[j].RaceID = race_id
                    /\ assignments[j].SubstitutedForDriverID = driver_id}}

\* the view's result rows of a driver for a race
DeltaRows(view, race_id, driver_id) ==
    {row \in Range(view.race_results) :
         row.RaceID = race_id /\ row.DriverID = driver_id}

\* the rows scoring gives when a race's results and substitutions are those
\* of race_id under another id
Relabelled(table, race_id, twin_id) ==
    [i \in DOMAIN table |->
        IF table[i].RaceID = race_id THEN [table[i] EXCEPT !.RaceID = twin_id]
        ELSE table[i]]

ScoredAs(view, race_id, twin_id) ==
    player_results_data(
        [view EXCEPT
            !.race_results = Relabelled(@, race_id, twin_id),
            !.driver_assignments = Relabelled(@, race_id, twin_id)],
        twin_id, DateOfRace(view.races, race_id))

RowOrders(seq) ==
    {p \in [DOMAIN seq -> DOMAIN seq] :
         \A i, j \in DOMAIN seq : p[i] = p[j] => i = j}

Permuted(seq, p) == [i \in DOMAIN seq |-> seq[p[i]]]

----------------------------------------------------------------------------
\* C1: after calculate_player_points_for_race(e) has returned True and saved
\* its rows for a completed race e, the player_results table that the next
\* load_data() without refresh returns gives every player, as per-event
\* Points for e, the event total the call computed for that player.
C1_ViewShowsEventTotals ==
    (Scored /\ last.saved /\ IsCompleted(store.races, last.race)) =>
        \A view \in {NextView} :
            view /= Raised =>
                \A i \in DOMAIN last.rows :
                    \E j \in DOMAIN view.player_results :
                        /\ view.player_results[j].RaceID = last.race
                        /\ view.player_results[j].PlayerID = last.rows[i].PlayerID
                        /\ view.player_results[j].Points = last.rows[i].Points

\* C2: the Points that calculate_player_points_for_race(e) persists for a
\* player in PlayerResults is the player's cumulative total before e, as the
\* normalized view the call loaded gives it, plus the player's event total.
C2_PersistedPointsAreCumulative ==
    (Scored /\ last.saved) =>
        \A i \in DOMAIN last.rows :
            \E j \in DOMAIN store.player_results :
                /\ store.player_results[j].RaceID = last.race
                /\ store.player_results[j].PlayerID = last.rows[i].PlayerID
                /\ store.player_results[j].Points =
                       PriorCumulative(last.view, last.rows[i].PlayerID, last.race)
                           + last.rows[i].Points

\* C3: in the view _process_data gives for the workbook, the per-event
\* Points of every driver and of every player, summed over the completed
\* races, equal the Points stored for it at its latest completed race with
\* a record (0 when it has none), whatever the stored sequence is.
C3_DeltasSumToLastCumulative ==
    \A raw \in {LoadRawData(store, TRUE)} :
        \A view \in {processed_data(raw)} :
            (view /= Raised /\ \E race_id \in RaceIds(raw.races) :
                                   IsCompleted(raw.races, race_id)) =>
                /\ \A d \in Range(raw.drivers) :
                       SumOfPoints(view.race_results, "DriverID", d)
                           = LastRecorded(raw.races,
                                          RowsOf(raw.race_results, "DriverID", d))
                /\ \A p \in Range(Column(raw.player_results, "PlayerID")) :
                       SumOfPoints(view.player_results, "PlayerID", p)
                           = LastRecorded(raw.races,
                                          RowsOf(raw.player_results, "PlayerID", p))

\* two completed races, a driver with points in both and a player with a
\* row in both
C3_TwoCompletedRaces ==
    \E view \in {Normalized(store)} :
        /\ view /= Raised
        /\ Cardinality({race_id \in RaceIds(store.races) :
                            IsCompleted(store.races, race_id)}) >= 2
        /\ \E d \in Range(store.drivers) :
               \A i \in DOMAIN view.race_results :
                   view.race_results[i].DriverID = d
                       => view.race_results[i].Points > 0
        /\ \E i \in DOMAIN view.player_results :
               /\ view.player_results[i].CumulativePoints > 0
               /\ view.player_results[i].Points = 0

\* C4: after a call of add_player, update_player_pick,
\* record_driver_substitution, save_race_results, save_player_results,
\* calculate_player_points_for_race or initialize_season_data has returned
\* True, the next load_data() without refresh returns the normalization of
\* the workbook's current content.
C4_NextLoadIsCurrent ==
    (last.op \in Mutators /\ last.ret) => NextView = Normalized(store)

\* C5: in the rows calculate_player_points_for_race(e) computes, an active
\* pick of a driver D that has a substitute recorded for e contributes the
\* result the view holds for a substitute of D in e, and contributes
\* nothing only when a substitute has no result for e; D's own result is
\* not what it contributes.
C5_SubstituteScoresForPick ==
    Scored =>
        \A i \in DOMAIN last.rows :
            LET row == last.rows[i]
                picks == last.view.player_picks
                race_date == DateOfRace(last.view.races, last.race)
            IN \A k \in ActivePicks(picks, row.PlayerID, race_date) :
                   LET D == picks[k].DriverID
                       subs == SubstitutesOf(last.view.driver_assignments,
                                             last.race, D)
                       segs == {s \in DOMAIN row.CalculationDetails :
                                    row.CalculationDetails[s].DriverID = D}
                   IN subs /= {} =>
                          /\ \A s \in segs :
                                 /\ row.CalculationDetails[s].SubstituteID \in subs
                                 /\ \E r \in DeltaRows(
                                        last.view, last.race,
                                        row.CalculationDetails[s].SubstituteID) :
                                        row.CalculationDetails[s].Raw = r.Points
                          /\ segs = {} =>
                                 \E sub \in subs :
                                     DeltaRows(last.view, last.race, sub) = {}

\* a scored pick whose driver has a substitute with a result, while the
\* driver has a different result of its own for the race
C5_SubstituteAndOwnResult ==
    /\ Scored
    /\ \E i \in DOMAIN last.rows :
           \E s \in DOMAIN last.rows[i].CalculationDetails :
               LET seg == last.rows[i].CalculationDetails[s]
               IN /\ seg.SubstituteID /= ""
                  /\ \E own \in DeltaRows(last.view, last.race, seg.DriverID) :
                         own.Points /= seg.Raw

\* C6: scoring 'ABU' gives every player twice the total that scoring the
\* same picks, substitutions and per-driver results under a non-final race
\* id gives; for every other race id the total is the sum of the
\* contributions as they are.
C6_SeasonFinalDoubles ==
    Scored =>
        \A twin \in {ScoredAs(last.view, last.race, "TWIN")} :
            \A i \in DOMAIN last.rows :
                /\ twin[i].PlayerID = last.rows[i].PlayerID
                /\ last.race = "ABU" =>
                       last.rows[i].Points = 2 * twin[i].Points
                /\ last.race /= "ABU" =>
                       last.rows[i].Points =
                           SumSeq(Column(last.rows[i].CalculationDetails, "Raw"))

\* 'ABU' scored with a player whose total is not 0
C6_FinalScored ==
    /\ Scored
    /\ last.race = "ABU"
    /\ \E i \in DOMAIN last.rows : last.rows[i].Points > 0

\* C7: whatever order the rows of Races are in, _process_data gives the
\* same race_results and player_results: the completed races are walked in
\* ascending date order.
C7_RowOrderOfRacesIrrelevant ==
    \A raw \in {LoadRawData(store, TRUE)} :
        \A view \in {processed_data(raw)} :
            \A p \in RowOrders(raw.races) :
                \A other \in {processed_data(
                                  [raw EXCEPT !.races = Permuted(raw.races, p)])} :
                    IF view = Raised THEN other = Raised
                    ELSE /\ other /= Raised
                         /\ other.race_results = view.race_results
                         /\ other.player_results = view.player_results

\* two completed races of different dates and a driver whose stored points
\* differ between them
C7_TwoDatedResults ==
    \E i, j \in DOMAIN store.race_results :
        /\ store.race_results[i].DriverID = store.race_results[j].DriverID
        /\ store.race_results[i].DriverID \in Range(store.drivers)
        /\ store.race_results[i].Points /= store.race_results[j].Points
        /\ IsCompleted(store.races, store.race_results[i].RaceID)
        /\ IsCompleted(store.races, store.race_results[j].RaceID)
        /\ DateOfRace(store.races, store.race_results[i].RaceID)
               < DateOfRace(store.races, store.race_results[j].RaceID)

C9_OneRowPerPlayer ==
    (Scored /\ last.saved) =>
        LET players == {store.player_picks[k].PlayerID :
                            k \in DOMAIN store.player_picks}
            rows(p) == {j \in DOMAIN store.player_results :
                            /\ store.player_results[j].RaceID = last.race
                            /\ store.player_results[j].PlayerID = p}
        IN /\ \A p \in players :
                  /\ Cardinality(rows(p)) = 1
                  /\ ActivePicks(store.player_picks, p,
                                 DateOfRace(store.races, last.race)) = {}
                         => \A j \in rows(p) : store.player_results[j].Points = 0
           /\ \A j \in DOMAIN store.player_results :
                  store.player_results[j].RaceID = last.race
                      => store.player_results[j].PlayerID \in players

\* a race scored for two players, one with points and one whose picks all
\* start after the race
C9_PlayerWithoutActivePick ==
    /\ Scored /\ last.saved
    /\ \E p \in {store.player_picks[k].PlayerID : k \in DOMAIN store.player_picks} :
           ActivePicks(store.player_picks, p,
                       DateOfRace(store.races, last.race)) = {}
    /\ \E j \in DOMAIN store.player_results :
           /\ store.player_results[j].RaceID = last.race
           /\ store.player_results[j].Points > 0

\* C10: calculate_player_points_for_race with a race id that is not in
\* Races returns False and leaves every table of the workbook as it was.
C10_UnknownRaceFails ==
    (/\ last.op = "calculate_player_points_for_race"
     /\ last.race \notin RaceIds(store.races)) =>
        ~last.ret /\ ~last.wrote

\* the call got as far as looking the race up: it was the manager's first
\* call, it loaded the workbook, and the workbook has races and players
C10_UnknownRaceLookedUp ==
    /\ last.op = "calculate_player_points_for_race"
    /\ last.race \notin RaceIds(store.races)
    /\ calls = 1
    /\ is_cache_valid
    /\ store.races /= << >>
    /\ store.player_picks /= << >>

----------------------------------------------------------------------------
\* the last call was given a race, driver or team id that the workbook it
\* found does not have
UnknownReference ==
    \/ /\ last.op \in {"save_race_results", "record_driver_substitution"}
       /\ last.race \notin RaceIds(last.before.races)
    \/ /\ last.op \in {"add_player", "record_driver_substitution"}
       /\ \/ ~(last.drivers \subseteq Range(last.before.drivers))
          \/ ~(last.teams \subseteq Range(last.before.teams))

\* C11: a save_race_results, record_driver_substitution or add_player call
\* that is given a race, driver or team id the workbook does not have
\* returns False and leaves every table of the workbook as it was.
C11_UnknownReferenceFails ==
    UnknownReference => (~last.ret /\ store = last.before)

----------------------------------------------------------------------------
\* the Status of a race in a Races table, "" when the race is not in it
StatusOf(races, race_id) ==
    IF race_id \in RaceIds(races)
    THEN races[CHOOSE i \in DOMAIN races : races[i].RaceID = race_id].Status
    ELSE ""

\* C12: a save_race_results(r, rows) for a race r of the calendar that
\* returns False has changed neither RaceResults nor the Status of r; one
\* that returns True has left rows as the results of r in RaceResults and
\* Completed as the Status of r.
C12_SaveRaceResultsAtomic ==
    (/\ last.op = "save_race_results"
     /\ last.race \in RaceIds(last.before.races)) =>
        IF last.ret
        THEN /\ RowsOfRace(store.race_results, last.race) = last.rows
             /\ StatusOf(store.races, last.race) = "Completed"
        ELSE /\ store.race_results = last.before.race_results
             /\ StatusOf(store.races, last.race)
                    = StatusOf(last.before.races, last.race)

----------------------------------------------------------------------------
\* C13: a load_data call that returns gives either a dict with all seven
\* tables or the empty dict; when _load_raw_data could not read every sheet
\* it gives the empty dict and leaves both caches empty and the flag false.
C13_LoadAllOrNothing ==
    (last.op = "load_data" /\ last.view /= Raised) =>
        /\ \/ last.view = EmptyDict
           \/ Range(sheet_names) \subseteq DOMAIN last.view
        /\ (last.reloaded /\ last.reads < Len(sheet_names)) =>
               /\ last.view = EmptyDict
               /\ data_cache = EmptyDict
               /\ raw_data_cache = EmptyDict
               /\ ~is_cache_valid

\* a load on a workbook with races and players that read some of the
\* sheets and not all of them, on a manager that has made a call before
C13_ReadFailedMidway ==
    /\ last.op = "load_data"
    /\ last.reloaded
    /\ last.reads > 0
    /\ last.reads < Len(sheet_names)
    /\ calls = 2
    /\ store.races /= << >>
    /\ store.player_picks /= << >>

----------------------------------------------------------------------------
\* C14: whatever call is made, every race the workbook had before the call
\* is still in Races with the same id and date, and its Status is what it
\* was unless it was Upcoming, is now Completed, and the call was
\* save_race_results for that race.
C14_RacesOnlyComplete ==
    \A i \in DOMAIN last.before.races :
        \E j \in DOMAIN store.races :
            /\ store.races[j].RaceID = last.before.races[i].RaceID
            /\ store.races[j].Date = last.before.races[i].Date
            /\ \/ store.races[j].Status = last.before.races[i].Status
               \/ /\ last.before.races[i].Status = "Upcoming"
                  /\ store.races[j].Status = "Completed"
                  /\ last.op = "save_race_results"
                  /\ last.race = last.before.races[i].RaceID

----------------------------------------------------------------------------
\* C15: in a session in which every player was added once, with two
\* distinct drivers, and whose picks were changed only by update_player_pick,
\* on every date the picks of a player whose interval from FromDate to
\* ToDate (both included, open when ToDate is empty) covers the date are
\* none or two.
C15_NoneOrTwoActivePicks ==
    \A p \in Players :
        \A date \in 0..(MaxDay + 1) :
            Cardinality(ActivePicks(store.player_picks, p, date)) \in {0, 2}

----------------------------------------------------------------------------
\* C16: a load_data(refresh=True) calls _load_raw_data whatever the flag
\* and the cache hold and, when the sheets could be read and normalized,
\* returns the normalization of the workbook's content; a load_data()
\* that finds the flag true and the cache not empty returns the cache and
\* does not call _load_raw_data.
C16_RefreshBypassesCache ==
    last.op = "load_data" =>
        /\ last.refresh =>
               /\ last.reloaded
               /\ (last.reads = Len(sheet_names) /\ last.view /= Raised) =>
                      last.view = Normalized(store)
        /\ (~last.refresh /\ last.valid /\ last.cache /= EmptyDict) =>
               /\ ~last.reloaded
               /\ last.view = last.cache

\* a refresh on a manager whose flag was true and whose cache was not what
\* the workbook normalizes to
C16_RefreshOverStaleCache ==
    /\ last.op = "load_data"
    /\ last.refresh
    /\ last.valid
    /\ last.cache /= EmptyDict
    /\ last.cache /= Normalized(store)
    /\ last.view = Normalized(store)

----------------------------------------------------------------------------
\* the stored records of a driver for a race, and the cumulative they give
\* (the last row counts when there are several)
RecordsOf(table, driver_id, race_id) ==
    {i \in DOMAIN table : /\ table[i].DriverID = driver_id
                          /\ table[i].RaceID = race_id}

StoredCumulative(table, driver_id, race_id) ==
    table[CHOOSE i \in RecordsOf(table, driver_id, race_id) :
              \A j \in RecordsOf(table, driver_id, race_id) : j <= i].Points

\* the cumulative of a driver recorded at the latest completed race dated
\* limit or earlier that has a record of the driver, 0 when there is none
LastCumulativeBy(raw, driver_id, limit) ==
    LET recorded == {r \in Range(raw.races) :
                         /\ r.Status = "Completed"
                         /\ r.Date <= limit
                         /\ RecordsOf(raw.race_results, driver_id, r.RaceID) /= {}}
    IN IF recorded = {} THEN 0
       ELSE StoredCumulative(
                raw.race_results, driver_id,
                (CHOOSE r \in recorded : \A o \in recorded : o.Date <= r.Date).RaceID)

\* C17: for every driver of Drivers and every completed race, the view
\* _process_data gives has one race_results row; its Points is the stored
\* cumulative minus the last cumulative recorded at an earlier completed
\* race (0 when there is none) when the driver has a stored record for the
\* race and 0 when it has none, negative when the cumulative went down; its
\* CumulativePoints is the last cumulative recorded at that race or
\* earlier; the rows of a driver are in ascending date order.
C17_DriverDeltas ==
    \A raw \in {LoadRawData(store, TRUE)} :
        \A view \in {processed_data(raw)} :
            view /= Raised =>
                \A d \in Range(raw.drivers) :
                    /\ \A r \in Range(raw.races) :
                           r.Status = "Completed" =>
                               \A rows \in {SelectSeq(view.race_results,
                                                LAMBDA row : /\ row.DriverID = d
                                                             /\ row.RaceID = r.RaceID)} :
                                   /\ Len(rows) = 1
                                   /\ rows[1].Points =
                                          IF RecordsOf(raw.race_results, d, r.RaceID) /= {}
                                          THEN StoredCumulative(raw.race_results, d, r.RaceID)
                                                   - LastCumulativeBy(raw, d, r.Date - 1)
                                          ELSE 0
                                   /\ rows[1].CumulativePoints =
                                          LastCumulativeBy(raw, d, r.Date)
                    /\ (\E r \in Range(raw.races) : r.Status = "Completed") =>
                           \A rows \in {RowsOf(view.race_results, "DriverID", d)} :
                               \A i, j \in DOMAIN rows :
                                   i < j => DateOfRace(raw.races, rows[i].RaceID)
                                                < DateOfRace(raw.races, rows[j].RaceID)

\* a driver whose cumulative went down between two completed races, and a
\* driver with no record for a completed race
C17_DecreasingCumulative ==
    \E view \in {Normalized(store)} :
        /\ view /= Raised
        /\ \E i \in DOMAIN view.race_results : view.race_results[i].Points < 0
        /\ \E i \in DOMAIN view.race_results :
               /\ view.race_results[i].DriverID \in Range(store.drivers)
               /\ RecordsOf(store.race_results, view.race_results[i].DriverID,
                            view.race_results[i].RaceID) = {}

----------------------------------------------------------------------------
\* C18: when no race of the workbook is Completed, _process_data succeeds
\* and the race_results and player_results of the view it gives are empty,
\* whatever rows RaceResults and PlayerResults hold.
C18_NothingCompletedNothingShown ==
    \A raw \in {LoadRawData(store, TRUE)} :
        (\A i \in DOMAIN raw.races : raw.races[i].Status /= "Completed") =>
            \A view \in {processed_data(raw)} :
                /\ view /= Raised
                /\ view.race_results = << >>
                /\ view.player_results = << >>

----------------------------------------------------------------------------
\* the segments of a details string whose driver token has a row for the
\* race in driver_rows, in their order
MatchedParts(race_id, details, driver_rows) ==
    SelectSeq(details,
              LAMBDA part :
                  \E i \in DOMAIN driver_rows :
                      /\ driver_rows[i].RaceID = race_id
                      /\ driver_rows[i].DriverID = part.DriverID)

\* C19: for every race id, every details string stored in PlayerResults
\* and the driver rows of the normalized view,
\* _regenerate_calculation_details returns one segment for each segment of
\* the string whose driver token has a driver row for the race, in the
\* original order and with the text before the colon as it was, its value
\* being the Points of that driver's row; the other segments are dropped
\* and the call does not raise.
C19_DetailsRegenerated ==
    \A raw \in {LoadRawData(store, TRUE)} :
        \A view \in {processed_data(raw)} :
            view /= Raised =>
                \A race_id \in RaceIds(raw.races) :
                    \A i \in DOMAIN raw.player_results :
                        LET details == raw.player_results[i].CalculationDetails
                            kept == MatchedParts(race_id, details, view.race_results)
                            out == _regenerate_calculation_details(
                                       race_id, details, view.race_results)
                        IN details /= NaN =>
                               /\ out /= DetailsRaised
                               /\ Len(out) = Len(kept)
                               /\ \A k \in DOMAIN kept :
                                      /\ out[k].DriverID = kept[k].DriverID
                                      /\ out[k].SubstituteID = kept[k].SubstituteID
                                      /\ \E row \in DeltaRows(view, race_id,
                                                              kept[k].DriverID) :
                                             out[k].Value = row.Points

\* a stored details string of a completed race with a segment whose driver
\* has no driver row, followed by segments whose drivers have one with
\* Points other than the value the segment had
C19_UnmatchedSegment ==
    \E view \in {Normalized(store)} :
        /\ view /= Raised
        /\ \E i \in DOMAIN store.player_results :
               LET row == store.player_results[i]
               IN /\ IsCompleted(store.races, row.RaceID)
                  /\ Len(row.CalculationDetails) >= 3
                  /\ DeltaRows(view, row.RaceID,
                               row.CalculationDetails[1].DriverID) = {}
                  /\ \E k \in 2..Len(row.CalculationDetails) :
                         \E r \in DeltaRows(view, row.RaceID,
                                            row.CalculationDetails[k].DriverID) :
                             r.Points /= row.CalculationDetails[k].Value

----------------------------------------------------------------------------
\* the drivers of the picks of a player that are active on a date, in the
\* order of the rows of PlayerPicks
ActivePickDrivers(picks, player_id, race_date) ==
    Column(SelectSeq(picks,
                     LAMBDA pick :
                         /\ pick.PlayerID = player_id
                         /\ pick.FromDate <= race_date
                         /\ (pick.ToDate = NaT \/ pick.ToDate[1] >= race_date)),
           "DriverID")

\* C20: the details calculate_player_points_for_race(e) persists for a
\* player have one segment for each pick of the player active on e's date,
\* in pick order; the segment names the picked driver, names a substitute
\* exactly when one is recorded for the driver in e, and shows the
\* multiplier exactly when e is 'ABU'; a pick whose scoring driver has no
\* result for e has its segment as well.
C20_OneSegmentPerActivePick ==
    (Scored /\ last.saved) =>
        \A i \in DOMAIN last.rows :
            LET details == last.rows[i].CalculationDetails
                drivers == ActivePickDrivers(
                               last.view.player_picks, last.rows[i].PlayerID,
                               DateOfRace(last.view.races, last.race))
            IN /\ Len(details) = Len(drivers)
               /\ \A k \in DOMAIN drivers :
                      LET subs == SubstitutesOf(last.view.driver_assignments,
                                                last.race, drivers[k])
                      IN /\ details[k].DriverID = drivers[k]
                         /\ IF subs = {} THEN details[k].SubstituteID = ""
                            ELSE details[k].SubstituteID \in subs
                         /\ (details[k].Kind = "x2") = (last.race = "ABU")

----------------------------------------------------------------------------
\* the rows of DriverAssignments that name, for the same race, an original
\* driver that an earlier row names already
LaterAssignments(assignments) ==
    {j \in DOMAIN assignments :
         \E i \in 1..(j - 1) :
             /\ assignments[i].RaceID = assignments[j].RaceID
             /\ assignments[i].SubstitutedForDriverID
                    = assignments[j].SubstitutedForDriverID}

\* DriverAssignments with those rows taken out
FirstAssignments(assignments) ==
    LET keep(i, acc) == IF i \in LaterAssignments(assignments) THEN acc
                        ELSE Append(acc, assignments[i])
        walk[i \in 0..Len(assignments)] ==
            IF i = 0 THEN << >> ELSE keep(i, walk[i - 1])
    IN walk[Len(assignments)]

\* C21: when several rows of DriverAssignments name the same original
\* driver for the race that calculate_player_points_for_race scores, the
\* segment of a pick of that driver names the substitute of the first of
\* those rows, and the rows computed are those computed from the table
\* with the later rows taken out.
C21_FirstSubstituteWins ==
    Scored =>
        /\ last.rows =
               player_results_data(
                   [last.view EXCEPT
                       !.driver_assignments = FirstAssignments(@)],
                   last.race, DateOfRace(last.view.races, last.race))
        /\ \A i \in DOMAIN last.rows :
               \A s \in DOMAIN last.rows[i].CalculationDetails :
                   LET seg == last.rows[i].CalculationDetails[s]
                       named == {j \in DOMAIN last.view.driver_assignments :
                                     /\ last.view.driver_assignments[j].RaceID
                                            = last.race
                                     /\ last.view.driver_assignments[j]
                                            .SubstitutedForDriverID = seg.DriverID}
                   IN named /= {} =>
                          seg.SubstituteID =
                              last.view.driver_assignments[
                                  CHOOSE j \in named :
                                      \A k \in named : j <= k].DriverID

\* a race scored with two substitutes recorded for a driver a player
\* holds, the two having different results for the race
C21_TwoSubstitutesOfOneDriver ==
    /\ Scored
    /\ \E j \in LaterAssignments(last.view.driver_assignments) :
           \E i \in 1..(j - 1) :
               LET first == last.view.driver_assignments[i]
                   later == last.view.driver_assignments[j]
               IN /\ first.RaceID = last.race
                  /\ later.RaceID = last.race
                  /\ first.SubstitutedForDriverID = later.SubstitutedForDriverID
                  /\ \E a \in DeltaRows(last.view, last.race, first.DriverID) :
                         \E b \in DeltaRows(last.view, last.race, later.DriverID) :
                             a.Points /= b.Points
                  /\ \E r \in DOMAIN last.rows :
                         \E s \in DOMAIN last.rows[r].CalculationDetails :
                             last.rows[r].CalculationDetails[s].DriverID
                                 = first.SubstitutedForDriverID

----------------------------------------------------------------------------
\* what a pick of a driver contributes to a total for a race: the Points
\* of the view's row of the driver's first recorded substitute, or of the
\* driver when none is recorded, doubled for 'ABU'; 0 when there is no row
Contribution(view, race_id, driver_id) ==
    LET named == {j \in DOMAIN view.driver_assignments :
                      /\ view.driver_assignments[j].RaceID = race_id
                      /\ view.driver_assignments[j].SubstitutedForDriverID
                             = driver_id}
        scorer == IF named = {} THEN driver_id
                  ELSE view.driver_assignments[
                           CHOOSE j \in named : \A k \in named : j <= k].DriverID
        rows == {i \in DOMAIN view.race_results :
                     /\ view.race_results[i].RaceID = race_id
                     /\ view.race_results[i].DriverID = scorer}
    IN IF rows = {} THEN 0
       ELSE view.race_results[CHOOSE i \in rows : \A k \in rows : i <= k].Points
                * (IF race_id = "ABU" THEN 2 ELSE 1)

\* C22: the total calculate_player_points_for_race(e) computes for a
\* player is the sum of the contributions of the player's picks with
\* FromDate <= date(e) and ToDate >= date(e) or no ToDate, however many
\* there are; no other pick contributes.
C22_TotalOverActivePicks ==
    Scored =>
        \A i \in DOMAIN last.rows :
            LET drivers == ActivePickDrivers(
                               last.view.player_picks, last.rows[i].PlayerID,
                               DateOfRace(last.view.races, last.race))
            IN last.rows[i].Points =
                   SumSeq([k \in DOMAIN drivers |->
                              Contribution(last.view, last.race, drivers[k])])

\* a race scored for a player with three picks covering its date, one of
\* them ending and one starting on that date, the ending one contributing
\* points
C22_PicksAtTheBounds ==
    /\ Scored
    /\ \E i \in DOMAIN last.rows :
           LET picks == last.view.player_picks
               race_date == DateOfRace(last.view.races, last.race)
               active == ActivePicks(picks, last.rows[i].PlayerID, race_date)
           IN /\ Cardinality(active) = 3
              /\ \E k \in active :
                     /\ picks[k].ToDate = DateOf(race_date)
                     /\ Contribution(last.view, last.race, picks[k].DriverID) > 0
              /\ \E k \in active : picks[k].FromDate = race_date

----------------------------------------------------------------------------
\* C23: a calculate_player_points_for_race(e) that returns True has had
\* its rows written: save_player_results returned True and the rows of e
\* in PlayerResults are the rows the call computed.
C23_SuccessMeansWritten ==
    Scored =>
        /\ last.saved
        /\ RowsOfRace(store.player_results, last.race) = last.rows

----------------------------------------------------------------------------
(* C24: a call that finds the workbook inaccessible *)

\* what the recorded call returns when it is made again on the manager as
\* it is now, with the workbook accessible throughout
Retry ==
    CASE last.op = "add_player" ->
             add_player(Self, last.args[1], last.args[2], last.args[3],
                        MaxAccesses).ret
      [] last.op = "update_player_pick" ->
             update_player_pick(Self, last.args[1], last.args[2], last.args[3],
                                last.args[4], MaxAccesses).ret
      [] last.op = "record_driver_substitution" ->
             record_driver_substitution(Self, last.race, last.args[1],
                                        last.args[2], last.args[3],
                                        MaxAccesses).ret
      [] last.op = "save_race_results" ->
             save_race_results(Self, last.race, last.rows, MaxAccesses).ret
      [] last.op = "save_player_results" ->
             save_player_results(Self, last.race, last.rows, MaxAccesses).ret
      [] last.op = "calculate_player_points_for_race" ->
             calculate_player_points_for_race(Self, last.race, MaxAccesses).ret
      [] OTHER -> TRUE

CanSucceed ==
    /\ last.op = "update_player_pick" =>
           \E i \in DOMAIN store.player_picks :
               /\ store.player_picks[i].PlayerID = last.args[1]
               /\ store.player_picks[i].DriverID = last.args[2]
               /\ IsNa(store.player_picks[i].ToDate)
    /\ last.op = "calculate_player_points_for_race" =>
           \E i \in DOMAIN store.races : store.races[i].RaceID = last.race
    /\ last.op \in {"calculate_player_points_for_race",
                    "record_driver_substitution"} =>
           _process_data(LoadRawData(store, TRUE)) /= Raised

----------------------------------------------------------------------------
(* C25: the regenerated details of a scored row *)

\* the driver a segment's value is scored from: the substitute it names,
\* the picked driver when it names none
SegmentScorer(part) ==
    IF part.SubstituteID /= "" THEN part.SubstituteID ELSE part.DriverID

\* C25: in the normalized view, the values of the regenerated
\* calculation-details segments of a player row written by
\* calculate_player_points_for_race are the per-driver deltas scored for
\* the row: a segment 'D (subbed by S)' has S's delta for the race (a
\* segment without a substitute D's), and on a race other than the final
\* one the segment values sum to the row's Points.
C25_SegmentsAreScoredDeltas ==
    (Scored /\ last.saved /\ IsCompleted(store.races, last.race)) =>
        \A view \in {Normalized(store)} :
            view /= Raised =>
                \A i \in DOMAIN view.player_results :
                    LET row == view.player_results[i]
                        parts == row.CalculationDetails
                    IN (row.RaceID = last.race /\ parts /= DetailsRaised) =>
                           /\ \A k \in DOMAIN parts :
                                  \E dr \in DeltaRows(view, last.race,
                                                      SegmentScorer(parts[k])) :
                                      parts[k].Value = dr.Points
                           /\ ~is_abu_dhabi(last.race) =>
                                  SumSeq(Column(parts, "Value")) = row.Points

----------------------------------------------------------------------------
(* C26: what a successful save changes *)

\* the rows of a table that belong to other races than race_id
RowsOfOtherRaces(table, race_id) ==
    SelectSeq(table, LAMBDA row : row.RaceID /= race_id)

\* every table of the workbook except those named is as the call found it
OtherTablesKept(changed) ==
    \A name \in DOMAIN store : name \notin changed => store[name] = last.before[name]

----------------------------------------------------------------------------
(* C27: scoring a race again *)

\* the workbook after calculate_player_points_for_race is called once more
\* for the race just scored, whatever becomes of the workbook's
\* accessibility during the call
ScoredAgain ==
    {calculate_player_points_for_race(Self, last.race, acc).m.store :
         acc \in Accesses}

----------------------------------------------------------------------------
(* C28: a substitution recorded for a race that is already Completed *)

\* the segment of the picked driver orig in the details of a stored row
\* names the substitute sub and carries sub's delta for the race
ScoredWithSubstitute(view, row, race_id, orig, sub) ==
    \E k \in DOMAIN row.CalculationDetails :
        /\ row.CalculationDetails[k].DriverID = orig
        /\ row.CalculationDetails[k].SubstituteID = sub
        /\ \E dr \in DeltaRows(view, race_id, sub) :
               row.CalculationDetails[k].Raw = dr.Points

\* C28: when record_driver_substitution(r, sub, team, orig) returns success
\* for a race r that is already Completed, the stored PlayerResults rows of
\* r have been recomputed with the new substitution before the call
\* returns, so that every player holding orig on r's date is scored with
\* sub's delta; for a race that is not Completed, PlayerResults is
\* unchanged.
C28_SubstitutionRescoresCompletedRace ==
    (last.op = "record_driver_substitution" /\ last.ret) =>
        IF IsCompleted(last.before.races, last.race)
        THEN \A view \in {Normalized(store)} :
                 /\ view /= Raised
                 /\ RowsOfRace(store.player_results, last.race)
                        = player_results_data(
                              view, last.race,
                              DateOfRace(view.races, last.race))
                 /\ \A i \in DOMAIN store.player_results :
                        LET row == store.player_results[i]
                        IN (/\ row.RaceID = last.race
                            /\ \E d \in Range(ActivePickDrivers(
                                              store.player_picks, row.PlayerID,
                                              DateOfRace(view.races, last.race))) :
                                   d = last.args[3])
                           => ScoredWithSubstitute(view, row, last.race,
                                                   last.args[3], last.args[1])
        ELSE store.player_results = last.before.player_results

----------------------------------------------------------------------------
(* C29: the keys of the normalized tables *)

\* the rows of a table with the given value in column col, for one race
RowsFor(table, race_id, col, id) ==
    {i \in DOMAIN table : table[i].RaceID = race_id /\ table[i][col] = id}

\* C29: whenever at least one race is Completed, the normalized
\* race_results table holds exactly one row for every pair (driver in
\* Drivers, completed race) and the normalized player_results table exactly
\* one row for every pair (player id present in the stored PlayerResults,
\* completed race); stored results of races that are not Completed and of
\* drivers absent from Drivers do not appear in the view.
C29_ViewKeyedByCompletedRaces ==
    \A view \in {Normalized(store)} :
        LET completed == {race_id \in RaceIds(store.races) :
                              IsCompleted(store.races, race_id)}
            listed == Range(store.drivers)
            scored == Range(Column(store.player_results, "PlayerID"))
        IN (completed /= {} /\ view /= Raised) =>
               /\ \A race_id \in completed :
                      /\ \A driver_id \in listed :
                             Cardinality(RowsFor(view.race_results, race_id,
                                                 "DriverID", driver_id)) = 1
                      /\ \A player_id \in scored :
                             Cardinality(RowsFor(view.player_results, race_id,
                                                 "PlayerID", player_id)) = 1
               /\ \A i \in DOMAIN view.race_results :
                      /\ view.race_results[i].RaceID \in completed
                      /\ view.race_results[i].DriverID \in listed
               /\ \A i \in DOMAIN view.player_results :
                      /\ view.player_results[i].RaceID \in completed
                      /\ view.player_results[i].PlayerID \in scored

\* a race is Completed and the view is produced while the workbook stores a
\* result of a driver who is not in Drivers for that race, a driver result
\* of a race that is not Completed, and a player result of a race that is
\* not Completed
C29_StoredRowsOutsideTheView ==
    /\ \E race_id \in RaceIds(store.races) : IsCompleted(store.races, race_id)
    /\ Normalized(store) /= Raised
    /\ \E i \in DOMAIN store.race_results :
           /\ IsCompleted(store.races, store.race_results[i].RaceID)
           /\ store.race_results[i].DriverID \notin Range(store.drivers)
    /\ \E i \in DOMAIN store.race_results :
           ~IsCompleted(store.races, store.race_results[i].RaceID)
    /\ \E i \in DOMAIN store.player_results :
           ~IsCompleted(store.races, store.player_results[i].RaceID)

----------------------------------------------------------------------------
(* C30: update_player_pick *)

\* a pick row is an open-ended pick of the player for the driver
OpenPickOf(pick, player_id, driver_id) ==
    /\ pick.PlayerID = player_id
    /\ pick.DriverID = driver_id
    /\ pick.ToDate = NaT

\* C30: update_player_pick(p, old, new) returns failure and leaves
\* PlayerPicks and the validity flag unchanged when p has no open-ended
\* pick for old; when it succeeds, it changes only the ToDate of p's open
\* pick(s) for old and appends one open-ended pick for new, every other
\* pick row being unchanged.
C30_PickSwapped ==
    last.op = "update_player_pick" =>
        LET before == last.before.player_picks
            after == store.player_picks
            p == last.args[1]
            old == last.args[2]
            new == last.args[3]
        IN /\ (\A i \in DOMAIN before : ~OpenPickOf(before[i], p, old)) =>
                  /\ ~last.ret
                  /\ after = before
                  /\ last.kept
           /\ last.ret =>
                  /\ Len(after) = Len(before) + 1
                  /\ \A i \in DOMAIN before :
                         IF OpenPickOf(before[i], p, old)
                         THEN /\ after[i].ToDate /= NaT
                              /\ after[i] = [before[i] EXCEPT
                                                !.ToDate = after[i].ToDate]
                         ELSE after[i] = before[i]
                  /\ OpenPickOf(after[Len(after)], p, new)
                  /\ DOMAIN after[Len(after)]
                         = {"PlayerID", "DriverID", "FromDate", "ToDate"}

\* a swap succeeded for a player while another player holds an open-ended
\* pick for the same old driver and the player holds another driver too
C30_SwapBesideOtherPicks ==
    /\ last.op = "update_player_pick"
    /\ last.ret
    /\ \E i \in DOMAIN last.before.player_picks :
           /\ last.before.player_picks[i].PlayerID /= last.args[1]
           /\ last.before.player_picks[i].DriverID = last.args[2]
           /\ last.before.player_picks[i].ToDate = NaT
    /\ \E i \in DOMAIN last.before.player_picks :
           /\ last.before.player_picks[i].PlayerID = last.args[1]
           /\ last.before.player_picks[i].DriverID /= last.args[2]

====
